---- MODULE Spec2Model ----
(***************************************************************************)
(* The boxing ring (boxing/models/ring_model.py) together with the part of *)
(* the boxer repository it talks to (boxing/models/boxers_model.py) and    *)
(* the random-fraction source (boxing/utils/api_utils.py).                 *)
(*                                                                         *)
(* Numbers.  Python computes skills and probabilities in IEEE doubles.     *)
(*   - a reach is kept in tenths of an inch (720 is 72.0), so that         *)
(*     reach/10 is a whole number of hundredths;                           *)
(*   - a skill and a skill difference are kept in hundredths;              *)
(*   - a draw r is kept in hundredths (73 is 0.73);                        *)
(*   - the probability p of ring_model.py:52 is kept as an interval code   *)
(*     over the hundredths: 2*h means p = h/100 exactly, 2*h+1 means       *)
(*     h/100 < p < (h+1)/100.  So r < p  iff  2*r < code(p), p = 0.5 iff   *)
(*     code(p) = 100 and p = 1.0 iff code(p) = 200.                        *)
(***************************************************************************)
EXTENDS Integers, Sequences, FiniteSets, TLC

\* Cap on the fights counter of a repository row (keeps the state space finite).
MaxFights == 3

Abs(x) == IF x < 0 THEN -x ELSE x

----------------------------------------------------------------------------
(* boxers_model.py *)

\* get_weight_class: the class of a weight, or "ValueError".
get_weight_class_OffByOne(weight) ==
    IF weight < 0 THEN "ValueError"
    ELSE IF weight > 203 THEN "HEAVYWEIGHT"
    ELSE IF weight >= 166 THEN "MIDDLEWEIGHT"
    ELSE IF weight >= 133 THEN "LIGHTWEIGHT"
    ELSE IF weight >= 125 THEN "FEATHERWEIGHT"
    ELSE "ValueError"

get_weight_class(weight) ==
    IF weight < 0 THEN "ValueError"
    ELSE IF weight >= 203 THEN "HEAVYWEIGHT"
    ELSE IF weight >= 166 THEN "MIDDLEWEIGHT"
    ELSE IF weight >= 133 THEN "LIGHTWEIGHT"
    ELSE IF weight >= 125 THEN "FEATHERWEIGHT"
    ELSE "ValueError"

\* The Boxer dataclass; __post_init__ derives weight_class from weight.
\* name is the sequence of the name's characters, reach is in tenths of an inch.
Boxer(id, name, weight, height, reach, age) ==
    [type |-> "Boxer", id |-> id, name |-> name, weight |-> weight,
     height |-> height, reach |-> reach, age |-> age,
     weight_class |-> get_weight_class(weight)]

\* The Boxer objects a caller holds: three repository boxers.  Ali and Joe
\* are 1.00 skill apart, Tyson is far above both.
Ali   == Boxer(1, <<"A", "l", "i">>, 160, 70, 720, 25)
Joe   == Boxer(2, <<"J", "o", "e">>, 161, 72, 620, 22)
Tyson == Boxer(3, <<"T", "y", "s", "o", "n">>, 220, 71, 710, 36)

BoxerPool == {Ali, Joe, Tyson}

\* A value that is not a Boxer (tests/test_ring_model.py passes a str).
NotABoxer == [type |-> "str"]

NoArg == [type |-> "None"]

Ids == {b.id : b \in BoxerPool}

\* A row of the boxers table, as far as the ring uses it.
NewRow == [fights |-> 0, wins |-> 0]

\* update_boxer_stats(boxer_id, result) on the table db.  dbfail: sqlite3
\* raises somewhere between connect and commit; the connection is then closed
\* without a commit, so nothing is written.
update_boxer_stats_LossCountsWin(db, boxer_id, result, dbfail) ==
    IF result \notin {"win", "loss"}
    THEN [db |-> db, outcome |-> "ValueError", msg |-> "invalid_result"]
    ELSE IF boxer_id < 0
    THEN [db |-> db, outcome |-> "ValueError", msg |-> "invalid_id"]
    ELSE IF dbfail
    THEN [db |-> db, outcome |-> "sqlite3.Error", msg |-> "db"]
    ELSE IF boxer_id \notin DOMAIN db
    THEN [db |-> db, outcome |-> "ValueError", msg |-> "not_found"]
    ELSE IF result = "win"
    THEN [db |-> [db EXCEPT ![boxer_id] = [fights |-> @.fights + 1, wins |-> @.wins + 1]],
          outcome |-> "ok", msg |-> ""]
    ELSE [db |-> [db EXCEPT ![boxer_id] = [fights |-> @.fights, wins |-> @.wins + 1]],
          outcome |-> "ok", msg |-> ""]

update_boxer_stats(db, boxer_id, result, dbfail) ==
    IF result \notin {"win", "loss"}
    THEN [db |-> db, outcome |-> "ValueError", msg |-> "invalid_result"]
    ELSE IF boxer_id < 0
    THEN [db |-> db, outcome |-> "ValueError", msg |-> "invalid_id"]
    ELSE IF dbfail
    THEN [db |-> db, outcome |-> "sqlite3.Error", msg |-> "db"]
    ELSE IF boxer_id \notin DOMAIN db
    THEN [db |-> db, outcome |-> "ValueError", msg |-> "not_found"]
    ELSE IF result = "win"
    THEN [db |-> [db EXCEPT ![boxer_id] = [fights |-> @.fights + 1, wins |-> @.wins + 1]],
          outcome |-> "ok", msg |-> ""]
    ELSE [db |-> [db EXCEPT ![boxer_id] = [fights |-> @.fights + 1, wins |-> @.wins]],
          outcome |-> "ok", msg |-> ""]

\* Boxer.create_boxer(name, weight, height, reach, age) on the table (db,
\* names).  id is the key the table gives the new row.  dbcalls counts the
\* calls of get_db_connection().
create_boxer_ConnectsFirst(db, names, id, name, weight, height, reach, age, dbfail) ==
    LET unchanged(outcome, msg, dbcalls) ==
            [db |-> db, names |-> names, outcome |-> outcome, msg |-> msg,
             dbcalls |-> dbcalls]
    IN  IF dbfail THEN unchanged("sqlite3.Error", "db", 1)
        ELSE IF weight < 125 THEN unchanged("ValueError", "invalid_weight", 1)
        ELSE IF height <= 0 THEN unchanged("ValueError", "invalid_height", 1)
        ELSE IF reach <= 0 THEN unchanged("ValueError", "invalid_reach", 1)
        ELSE IF ~(18 <= age /\ age <= 40) THEN unchanged("ValueError", "invalid_age", 1)
        ELSE IF \E i \in DOMAIN names : names[i] = name
        THEN unchanged("ValueError", "duplicate_name", 1)
        ELSE [db |-> [i \in DOMAIN db \cup {id} |-> IF i = id THEN NewRow ELSE db[i]],
              names |-> [i \in DOMAIN names \cup {id} |->
                            IF i = id THEN name ELSE names[i]],
              outcome |-> "ok", msg |-> "", dbcalls |-> 1]

create_boxer(db, names, id, name, weight, height, reach, age, dbfail) ==
    LET unchanged(outcome, msg, dbcalls) ==
            [db |-> db, names |-> names, outcome |-> outcome, msg |-> msg,
             dbcalls |-> dbcalls]
    IN  IF weight < 125 THEN unchanged("ValueError", "invalid_weight", 0)
        ELSE IF height <= 0 THEN unchanged("ValueError", "invalid_height", 0)
        ELSE IF reach <= 0 THEN unchanged("ValueError", "invalid_reach", 0)
        ELSE IF ~(18 <= age /\ age <= 40) THEN unchanged("ValueError", "invalid_age", 0)
        ELSE IF dbfail THEN unchanged("sqlite3.Error", "db", 1)
        ELSE IF \E i \in DOMAIN names : names[i] = name
        THEN unchanged("ValueError", "duplicate_name", 1)
        ELSE [db |-> [i \in DOMAIN db \cup {id} |-> IF i = id THEN NewRow ELSE db[i]],
              names |-> [i \in DOMAIN names \cup {id} |->
                            IF i = id THEN name ELSE names[i]],
              outcome |-> "ok", msg |-> "", dbcalls |-> 1]

----------------------------------------------------------------------------
(* api_utils.py *)

\* What get_random() can do: return a fraction (in hundredths), raise
\* RuntimeError (timeout, request failure) or ValueError (unparsable text).
Draws == {0, 50, 73, 74, 99, 100}

RandomOutcomes ==
    {[outcome |-> "ok", r |-> r, msg |-> ""] : r \in Draws}
    \cup {[outcome |-> "RuntimeError", r |-> -1, msg |-> "random_failed"],
          [outcome |-> "ValueError", r |-> -1, msg |-> "random_invalid"]}

----------------------------------------------------------------------------
(* ring_model.py *)

\* get_fighting_skill, in hundredths.
get_fighting_skill_AgeInclusive(boxer) ==
    LET age_modifier == IF boxer.age <= 25 THEN -1
                        ELSE IF boxer.age > 35 THEN -2 ELSE 0
    IN  100 * (boxer.weight * Len(boxer.name)) + boxer.reach + 100 * age_modifier

get_fighting_skill(boxer) ==
    LET age_modifier == IF boxer.age < 25 THEN -1
                        ELSE IF boxer.age > 35 THEN -2 ELSE 0
    IN  100 * (boxer.weight * Len(boxer.name)) + boxer.reach + 100 * age_modifier

\* 1 / (1 + math.e ** (-delta)) in doubles, tabulated over delta in
\* hundredths: PThreshold[i] is the least delta whose value exceeds
\* (49 + i)/100.
PThreshold ==
    <<  1,   5,   9,  13,  17,  21,  25,  29,  33,  37,
       41,  45,  49,  54,  58,  62,  67,  71,  76,  81,
       85,  90,  95, 100, 105, 110, 116, 121, 127, 133,
      139, 146, 152, 159, 166, 174, 182, 191, 200, 210,
      220, 232, 245, 259, 276, 295, 318, 348, 390, 460 >>

\* The least delta (hundredths) from which 1 + e^-delta rounds to 1.0, so
\* that the quotient is exactly 1.0 (e^-36.74 < 2^-53).
SaturationDelta == 3674

\* normalized_delta of fight(), as an interval code (see the head comment).
normalized_delta(delta) ==
    IF delta = 0 THEN 100
    ELSE IF delta >= SaturationDelta THEN 200
    ELSE 2 * (49 + Cardinality({i \in 1..Len(PThreshold) : PThreshold[i] <= delta})) + 1

\* random_number < normalized_delta
LessThanP(r, p) == 2 * r < p

\* clear_ring
clear_ring_PopsOne(ring) == IF ring = <<>> THEN ring ELSE Tail(ring)

clear_ring(ring) == IF ring = <<>> THEN ring ELSE <<>>

\* enter_ring: the new ring and how the call ended.
enter_ring_OffByOne(ring, boxer) ==
    IF boxer.type # "Boxer"
    THEN [ring |-> ring, outcome |-> "TypeError", msg |-> "invalid_type"]
    ELSE IF Len(ring) > 2
    THEN [ring |-> ring, outcome |-> "ValueError", msg |-> "ring_full"]
    ELSE [ring |-> Append(ring, boxer), outcome |-> "ok", msg |-> ""]

enter_ring_ReplacesOnFull(ring, boxer) ==
    IF boxer.type # "Boxer"
    THEN [ring |-> ring, outcome |-> "TypeError", msg |-> "invalid_type"]
    ELSE IF Len(ring) >= 2
    THEN [ring |-> <<ring[1], boxer>>, outcome |-> "ValueError", msg |-> "ring_full"]
    ELSE [ring |-> Append(ring, boxer), outcome |-> "ok", msg |-> ""]

enter_ring_FullFirst(ring, boxer) ==
    IF Len(ring) >= 2
    THEN [ring |-> ring, outcome |-> "ValueError", msg |-> "ring_full"]
    ELSE IF boxer.type # "Boxer"
    THEN [ring |-> ring, outcome |-> "TypeError", msg |-> "invalid_type"]
    ELSE [ring |-> Append(ring, boxer), outcome |-> "ok", msg |-> ""]

enter_ring(ring, boxer) ==
    IF boxer.type # "Boxer"
    THEN [ring |-> ring, outcome |-> "TypeError", msg |-> "invalid_type"]
    ELSE IF Len(ring) >= 2
    THEN [ring |-> ring, outcome |-> "ValueError", msg |-> "ring_full"]
    ELSE [ring |-> Append(ring, boxer), outcome |-> "ok", msg |-> ""]

\* get_boxers
get_boxers_Reversed(ring) == [i \in 1..Len(ring) |-> ring[Len(ring) + 1 - i]]

get_boxers(ring) == ring

\* fight(), the guard: fewer than two boxers.
fight_insufficient_ClearsRing(ring, db) ==
    [ring |-> <<>>, db |-> db, outcome |-> "ValueError", msg |-> "two_boxers",
     ret |-> <<>>, drew |-> FALSE, r |-> -1, p |-> -1, winner |-> 0, updates |-> <<>>]

fight_insufficient(ring, db) ==
    [ring |-> ring, db |-> db, outcome |-> "ValueError", msg |-> "two_boxers",
     ret |-> <<>>, drew |-> FALSE, r |-> -1, p |-> -1, winner |-> 0, updates |-> <<>>]

\* fight(), delta = abs(skill_1 - skill_2)
skill_delta_Signed(skill_1, skill_2) == skill_1 - skill_2

skill_delta(skill_1, skill_2) == Abs(skill_1 - skill_2)

\* fight(), the branch that names the winner: 1 is boxer_1, 2 is boxer_2.
choose_winner(random_number, p) == IF LessThanP(random_number, p) THEN 1 ELSE 2

\* fight(), from the first stats update to the return.  fail1 and fail2:
\* whether sqlite3 fails in the first and in the second update_boxer_stats
\* call.  updates is the sequence of update_boxer_stats calls made.
record_fight_KeepsRing(ring, db, winner, loser, fail1, fail2) ==
    LET call1 == [id |-> winner.id, result |-> "win"]
        call2 == [id |-> loser.id, result |-> "loss"]
        u1    == update_boxer_stats(db, winner.id, "win", fail1)
        u2    == update_boxer_stats(u1.db, loser.id, "loss", fail2)
    IN  IF u1.outcome # "ok"
        THEN [ring |-> ring, db |-> u1.db, outcome |-> u1.outcome, msg |-> u1.msg,
              ret |-> <<>>, updates |-> <<call1>>]
        ELSE IF u2.outcome # "ok"
        THEN [ring |-> ring, db |-> u2.db, outcome |-> u2.outcome, msg |-> u2.msg,
              ret |-> <<>>, updates |-> <<call1, call2>>]
        ELSE [ring |-> ring, db |-> u2.db, outcome |-> "ok", msg |-> "",
              ret |-> winner.name, updates |-> <<call1, call2>>]

record_fight_LoserFirst(ring, db, winner, loser, fail1, fail2) ==
    LET call1 == [id |-> loser.id, result |-> "loss"]
        call2 == [id |-> winner.id, result |-> "win"]
        u1    == update_boxer_stats(db, loser.id, "loss", fail1)
        u2    == update_boxer_stats(u1.db, winner.id, "win", fail2)
    IN  IF u1.outcome # "ok"
        THEN [ring |-> ring, db |-> u1.db, outcome |-> u1.outcome, msg |-> u1.msg,
              ret |-> <<>>, updates |-> <<call1>>]
        ELSE IF u2.outcome # "ok"
        THEN [ring |-> ring, db |-> u2.db, outcome |-> u2.outcome, msg |-> u2.msg,
              ret |-> <<>>, updates |-> <<call1, call2>>]
        ELSE [ring |-> clear_ring(ring), db |-> u2.db, outcome |-> "ok", msg |-> "",
              ret |-> winner.name, updates |-> <<call1, call2>>]

record_fight(ring, db, winner, loser, fail1, fail2) ==
    LET call1 == [id |-> winner.id, result |-> "win"]
        call2 == [id |-> loser.id, result |-> "loss"]
        u1    == update_boxer_stats(db, winner.id, "win", fail1)
        u2    == update_boxer_stats(u1.db, loser.id, "loss", fail2)
    IN  IF u1.outcome # "ok"
        THEN [ring |-> ring, db |-> u1.db, outcome |-> u1.outcome, msg |-> u1.msg,
              ret |-> <<>>, updates |-> <<call1>>]
        ELSE IF u2.outcome # "ok"
        THEN [ring |-> ring, db |-> u2.db, outcome |-> u2.outcome, msg |-> u2.msg,
              ret |-> <<>>, updates |-> <<call1, call2>>]
        ELSE [ring |-> clear_ring(ring), db |-> u2.db, outcome |-> "ok", msg |-> "",
              ret |-> winner.name, updates |-> <<call1, call2>>]

\* fight(): rnd is what get_random() does.  A failing get_random() ends the
\* call before any update.
fight_UpdatesBeforeDraw(ring, db, rnd, fail1, fail2) ==
    IF Len(ring) < 2
    THEN fight_insufficient(ring, db)
    ELSE
      LET boxer_1 == get_boxers(ring)[1]
          boxer_2 == get_boxers(ring)[2]
          skill_1 == get_fighting_skill(boxer_1)
          skill_2 == get_fighting_skill(boxer_2)
          delta   == skill_delta(skill_1, skill_2)
          p       == normalized_delta(delta)
      IN
      IF rnd.outcome # "ok"
      THEN [ring |-> ring,
            db |-> update_boxer_stats(db, boxer_1.id, "loss", fail1).db,
            outcome |-> rnd.outcome, msg |-> rnd.msg,
            ret |-> <<>>, drew |-> TRUE, r |-> -1, p |-> p, winner |-> 0,
            updates |-> <<>>]
      ELSE
        LET w      == choose_winner(rnd.r, p)
            winner == IF w = 1 THEN boxer_1 ELSE boxer_2
            loser  == IF w = 1 THEN boxer_2 ELSE boxer_1
            rec    == record_fight(ring, db, winner, loser, fail1, fail2)
        IN  [ring |-> rec.ring, db |-> rec.db, outcome |-> rec.outcome,
             msg |-> rec.msg, ret |-> rec.ret, drew |-> TRUE, r |-> rnd.r,
             p |-> p, winner |-> w, updates |-> rec.updates]

fight(ring, db, rnd, fail1, fail2) ==
    IF Len(ring) < 2
    THEN fight_insufficient(ring, db)
    ELSE
      LET boxer_1 == get_boxers(ring)[1]
          boxer_2 == get_boxers(ring)[2]
          skill_1 == get_fighting_skill(boxer_1)
          skill_2 == get_fighting_skill(boxer_2)
          delta   == skill_delta(skill_1, skill_2)
          p       == normalized_delta(delta)
      IN
      IF rnd.outcome # "ok"
      THEN [ring |-> ring, db |-> db, outcome |-> rnd.outcome, msg |-> rnd.msg,
            ret |-> <<>>, drew |-> TRUE, r |-> -1, p |-> p, winner |-> 0,
            updates |-> <<>>]
      ELSE
        LET w      == choose_winner(rnd.r, p)
            winner == IF w = 1 THEN boxer_1 ELSE boxer_2
            loser  == IF w = 1 THEN boxer_2 ELSE boxer_1
            rec    == record_fight(ring, db, winner, loser, fail1, fail2)
        IN  [ring |-> rec.ring, db |-> rec.db, outcome |-> rec.outcome,
             msg |-> rec.msg, ret |-> rec.ret, drew |-> TRUE, r |-> rnd.r,
             p |-> p, winner |-> w, updates |-> rec.updates]

----------------------------------------------------------------------------
(* The state: the ring, the boxers table, and a record of the last call.   *)

VARIABLES
    ring,     \* RingModel.ring: the occupants, in order of entry
    db,       \* the boxers table: id -> [fights, wins]
    entered,  \* history: the boxers entered since the ring was last empty
    last,     \* history: the last call, its outcome and the state it started in
    names,    \* the boxers table, column name: id -> name
    obj       \* a Boxer object a caller holds outside the ring, or NoArg

vars == <<ring, db, entered, last, names, obj>>

\* The name column of the rows of the pool's boxers.
PoolNames == [i \in Ids |-> (CHOOSE b \in BoxerPool : b.id = i).name]

NoCall ==
    [op |-> "init", arg |-> NoArg, outcome |-> "ok", msg |-> "",
     retName |-> <<>>, retList |-> <<>>, ring |-> <<>>,
     db |-> [i \in Ids |-> NewRow],
     drew |-> FALSE, r |-> -1, p |-> -1, winner |-> 0, updates |-> <<>>,
     names |-> PoolNames, dbcalls |-> 0, value |-> 0, class |-> ""]

\* RingModel.__init__ and a table that holds the three boxers, no fights yet.
Init ==
    /\ ring = <<>>
    /\ db = [i \in Ids |-> NewRow]
    /\ entered = <<>>
    /\ last = NoCall
    /\ names = PoolNames
    /\ obj = NoArg

\* What every call records about the state it started in.
Call(op, arg) ==
    [NoCall EXCEPT !.op = op, !.arg = arg, !.ring = ring, !.db = db, !.names = names]

EnterRing ==
    \E boxer \in BoxerPool \cup {NotABoxer} :
        LET res == enter_ring(ring, boxer) IN
        /\ ring' = res.ring
        /\ entered' = IF res.outcome = "ok" THEN Append(entered, boxer) ELSE entered
        /\ last' = [Call("enter_ring", boxer) EXCEPT !.outcome = res.outcome, !.msg = res.msg]
        /\ UNCHANGED <<db, names, obj>>

ClearRing ==
    /\ ring' = clear_ring(ring)
    /\ entered' = <<>>
    /\ last' = Call("clear_ring", NoArg)
    /\ UNCHANGED <<db, names, obj>>

GetBoxers ==
    /\ last' = [Call("get_boxers", NoArg) EXCEPT !.retList = get_boxers(ring)]
    /\ UNCHANGED <<ring, db, entered, names, obj>>

Fight ==
    /\ \A i \in 1..Len(ring) :
          ring[i].id \in DOMAIN db => db[ring[i].id].fights + 2 <= MaxFights
    /\ \E rnd \in RandomOutcomes, fail1 \in BOOLEAN, fail2 \in BOOLEAN :
        \* a choice that cannot affect the call is taken once only
        /\ Len(ring) < 2 => rnd.outcome = "RuntimeError"
        /\ rnd.outcome # "ok" => (~fail1 /\ ~fail2)
        /\ ~(fail1 /\ fail2)
        /\ LET res == fight(ring, db, rnd, fail1, fail2) IN
             /\ ring' = res.ring
             /\ db' = res.db
             /\ entered' = IF res.ring = <<>> THEN <<>> ELSE entered
             /\ last' = [Call("fight", NoArg) EXCEPT
                             !.outcome = res.outcome, !.msg = res.msg,
                             !.retName = res.ret, !.drew = res.drew, !.r = res.r,
                             !.p = res.p, !.winner = res.winner,
                             !.updates = res.updates, !.dbcalls = Len(res.updates)]
             /\ UNCHANGED <<names, obj>>

\* delete_boxer(boxer_id) of an existing row; Boxer objects already fetched
\* from the table live on in the caller and in the ring.
DeleteBoxer ==
    \E boxer_id \in DOMAIN db :
        /\ db' = [i \in DOMAIN db \ {boxer_id} |-> db[i]]
        /\ names' = [i \in DOMAIN names \ {boxer_id} |-> names[i]]
        /\ last' = [Call("delete_boxer", NoArg) EXCEPT !.dbcalls = 1]
        /\ UNCHANGED <<ring, entered, obj>>

Next == EnterRing \/ ClearRing \/ GetBoxers \/ Fight \/ DeleteBoxer

Spec == Init /\ [][Next]_vars

----------------------------------------------------------------------------
(* Boxer objects and the pure functions, on their own.                     *)

\* The weights get_weight_class is called with: from MaxBelowZero under zero
\* up to MaxWeight.
MaxBelowZero == 3

MaxWeight == 210

Weights == (0 - MaxBelowZero)..MaxWeight

\* get_weight_class(weight), called directly.
GetWeightClass ==
    \E weight \in Weights :
        LET class == get_weight_class(weight) IN
        /\ last' = [Call("get_weight_class", NoArg) EXCEPT
                        !.value = weight, !.class = class,
                        !.outcome = IF class = "ValueError" THEN "ValueError" ELSE "ok"]
        /\ UNCHANGED <<ring, db, entered, names, obj>>

\* The weights a caller constructs a Boxer with or assigns to one.
ObjWeights == {100, 125, 160, 180, 220}

\* Boxer(id, name, weight, height, reach, age): __post_init__ raises the
\* ValueError of get_weight_class for a weight below 125, and then there is
\* no object.
NewBoxer ==
    \E weight \in ObjWeights :
        LET b == Boxer(1, Ali.name, weight, 70, 720, 25) IN
        /\ obj' = IF b.weight_class = "ValueError" THEN obj ELSE b
        /\ last' = [Call("Boxer", NoArg) EXCEPT
                        !.value = weight, !.class = b.weight_class,
                        !.outcome = IF b.weight_class = "ValueError"
                                    THEN "ValueError" ELSE "ok"]
        /\ UNCHANGED <<ring, db, entered, names>>

\* boxer.weight = weight on an existing object: the dataclass is not frozen
\* and has no setter, so only the field weight changes.
AssignWeight ==
    /\ obj.type = "Boxer"
    /\ \E weight \in ObjWeights :
        /\ obj' = [obj EXCEPT !.weight = weight]
        /\ last' = [Call("set_weight", NoArg) EXCEPT
                        !.value = weight, !.class = obj.weight_class]
        /\ UNCHANGED <<ring, db, entered, names>>

NextBoxer == GetWeightClass \/ NewBoxer \/ AssignWeight

SpecBoxer == Init /\ [][NextBoxer]_vars

\* The boxers get_fighting_skill is called with: the pool, the boxer of the
\* spec's scenario 1 (weight 160, six letters, reach 72.0, age 25) and boxers
\* on both sides of the two age limits.
Boxer1 == Boxer(4, <<"B", "o", "x", "e", "r", "1">>, 160, 70, 720, 25)

SkillBoxers ==
    BoxerPool \cup {Boxer1}
    \cup {Boxer(5, <<"K", "i", "d">>, 130, 68, 655, age) : age \in {18, 24, 26, 35, 36, 40}}

\* get_fighting_skill(boxer), called directly, in any ring state.
GetFightingSkill ==
    \E boxer \in SkillBoxers :
        /\ last' = [Call("get_fighting_skill", boxer) EXCEPT
                        !.value = get_fighting_skill(boxer)]
        /\ UNCHANGED <<ring, db, entered, names, obj>>

NextSkill == EnterRing \/ ClearRing \/ GetFightingSkill

SpecSkill == Init /\ [][NextSkill]_vars

----------------------------------------------------------------------------
(* The ring together with the repository calls create_boxer, delete_boxer  *)
(* and update_boxer_stats, on a table of at most two rows.                 *)

\* The keys a row of the table can have here.
RowIds == {Ali.id, Joe.id}

\* The table holds Ali; Joe and Tyson are Boxer objects without a row.
InitRepo ==
    /\ ring = <<>>
    /\ entered = <<>>
    /\ db = [i \in {Ali.id} |-> NewRow]
    /\ names = [i \in {Ali.id} |-> Ali.name]
    /\ obj = NoArg
    /\ last = [NoCall EXCEPT !.db = [i \in {Ali.id} |-> NewRow],
                             !.names = [i \in {Ali.id} |-> Ali.name]]

CreateArg(name, weight, height, reach, age) ==
    [type |-> "create_boxer", name |-> name, weight |-> weight,
     height |-> height, reach |-> reach, age |-> age]

\* What create_boxer is called with: two acceptable boxers, one bad field at
\* a time on either side of its limit, and all fields bad at once.
CreateArgs ==
    {CreateArg(b.name, b.weight, b.height, b.reach, b.age) : b \in {Ali, Joe}}
    \cup {CreateArg(Joe.name, 124, 72, 620, 22),
          CreateArg(Joe.name, 161, 0, 620, 22),
          CreateArg(Joe.name, 161, 72, 0, 22),
          CreateArg(Joe.name, 161, 72, 620, 17),
          CreateArg(Joe.name, 161, 72, 620, 41),
          CreateArg(Joe.name, 125, 1, 1, 18),
          CreateArg(Joe.name, 100, -1, -5, 50),
          CreateArg(<<"X">>, 100, 70, 720, 25)}

\* Boxer.create_boxer; the table picks the key of the new row among the
\* free ones.
CreateBoxer ==
    \E a \in CreateArgs, dbfail \in BOOLEAN :
      \E id \in IF RowIds \subseteq DOMAIN db THEN {0} ELSE RowIds \ DOMAIN db :
        LET res == create_boxer(db, names, id, a.name, a.weight, a.height,
                                a.reach, a.age, dbfail) IN
        \* a full table takes no row; a choice without effect is taken once
        /\ res.outcome = "ok" => id \in RowIds
        /\ dbfail => res.outcome = "sqlite3.Error"
        /\ db' = res.db
        /\ names' = res.names
        /\ last' = [Call("create_boxer", a) EXCEPT
                        !.outcome = res.outcome, !.msg = res.msg,
                        !.dbcalls = res.dbcalls]
        /\ UNCHANGED <<ring, entered, obj>>

\* update_boxer_stats(boxer_id, result), called directly.
UpdateBoxerStats ==
    \E boxer_id \in RowIds, result \in {"win", "loss"}, dbfail \in BOOLEAN :
        LET res == update_boxer_stats(db, boxer_id, result, dbfail) IN
        /\ boxer_id \in DOMAIN db => db[boxer_id].fights < MaxFights
        /\ db' = res.db
        /\ last' = [Call("update_boxer_stats", NoArg) EXCEPT
                        !.outcome = res.outcome, !.msg = res.msg,
                        !.value = boxer_id, !.class = result,
                        !.dbcalls = 1]
        /\ UNCHANGED <<ring, entered, names, obj>>

NextRepo == Next \/ CreateBoxer \/ UpdateBoxerStats

SpecRepo == InitRepo /\ [][NextRepo]_vars

----------------------------------------------------------------------------
(* Properties.  last.ring and last.db are the ring and the table the last  *)
(* call started in; ring and db are what it left.                          *)

FightResolved == last.op = "fight" /\ last.winner # 0

WinnerId == last.ring[last.winner].id

LoserId == last.ring[3 - last.winner].id

\* C1: whatever sequence of enter_ring, clear_ring and fight calls was made,
\* successful or failing, the ring holds at most 2 boxers.
C1_RingAtMostTwo == Len(ring) <= 2

\* An enter_ring call was just refused on a ring that holds two boxers.
C1_Witness ==
    /\ last.op = "enter_ring" /\ last.arg.type = "Boxer"
    /\ Len(last.ring) = 2 /\ Len(ring) = 2

\* C2: once fight() on a full ring has chosen a winner, the ring is empty
\* when fight() finishes, also when a stats update failed.
C2_RingEmptyOnceWinnerChosen == FightResolved => ring = <<>>

\* C3: fight() with 0 or 1 boxers in the ring fails with the "two boxers"
\* error and changes nothing: same occupants in the same order, no random
\* number drawn, no stats update made and no row of the table changed.
C3_FightNeedsTwo ==
    (last.op = "fight" /\ Len(last.ring) < 2) =>
        /\ last.outcome = "ValueError" /\ last.msg = "two_boxers"
        /\ ring = last.ring
        /\ ~last.drew
        /\ last.updates = <<>>
        /\ db = last.db

\* fight() was just called with one boxer in the ring.
C3_Witness ==
    /\ last.op = "fight" /\ Len(last.ring) = 1
    /\ last.outcome = "ValueError"

\* C4: enter_ring with a Boxer succeeds from Empty and from OneOccupant,
\* appending the boxer, and fails with the ring-full error from Full,
\* leaving the two occupants and their order as they were.
C4_EnterByState ==
    (last.op = "enter_ring" /\ last.arg.type = "Boxer") =>
        /\ Len(last.ring) < 2 =>
              /\ last.outcome = "ok"
              /\ ring = Append(last.ring, last.arg)
        /\ Len(last.ring) >= 2 =>
              /\ last.outcome = "ValueError" /\ last.msg = "ring_full"
              /\ ring = last.ring

\* A third boxer, different from both occupants, was just refused.
C4_Witness ==
    /\ last.op = "enter_ring" /\ last.arg.type = "Boxer"
    /\ last.outcome = "ValueError" /\ last.msg = "ring_full"
    /\ Len(ring) = 2 /\ ring[1] # ring[2]
    /\ last.arg \notin {ring[1], ring[2]}

\* C5: whenever fight() returns normally the ring is empty afterwards and the
\* returned name is the name of one of the two boxers that were in the ring.
C5_FightReturn ==
    (last.op = "fight" /\ last.outcome = "ok") =>
        /\ ring = <<>>
        /\ Len(last.ring) = 2
        /\ last.retName \in {last.ring[1].name, last.ring[2].name}

\* fight() just returned the second boxer's name, two different boxers.
C5_Witness ==
    /\ last.op = "fight" /\ last.outcome = "ok"
    /\ last.ring[1].name # last.ring[2].name
    /\ last.retName = last.ring[2].name

\* C6: for every full ring and every draw r, fight() takes the first-entered
\* boxer as the winner exactly when r < p and the second-entered otherwise,
\* where p is the logistic value of the absolute skill difference; the same
\* two boxers entered in the other order (so that the higher skill is on the
\* other side) give the same side as the winner for the same r.
C6_FirstWinsIffBelowP ==
    FightResolved =>
        LET a == last.ring[1]
            b == last.ring[2]
            p == normalized_delta(Abs(get_fighting_skill(a) - get_fighting_skill(b)))
            swapped == fight(<<b, a>>, last.db,
                             [outcome |-> "ok", r |-> last.r, msg |-> ""],
                             FALSE, FALSE)
        IN  /\ last.p = p
            /\ (last.winner = 1) <=> (2 * last.r < p)
            /\ (last.winner = 2) <=> ~(2 * last.r < p)
            /\ swapped.winner = last.winner

\* The first-entered boxer just won although the other one has the higher skill.
C6_Witness ==
    /\ FightResolved /\ last.winner = 1
    /\ get_fighting_skill(last.ring[1]) < get_fighting_skill(last.ring[2])
    /\ last.r = 73

\* C7: after a fight() that returns normally between two boxers present in
\* the table, the winner's fights and wins are each exactly 1 higher, the
\* loser's fights is exactly 1 higher and the loser's wins is unchanged, and
\* every other row is unchanged.
C7_StatsAfterFight ==
    (last.op = "fight" /\ last.outcome = "ok"
       /\ WinnerId \in DOMAIN last.db /\ LoserId \in DOMAIN last.db) =>
        /\ DOMAIN db = DOMAIN last.db
        /\ db[WinnerId].fights = last.db[WinnerId].fights + 1
        /\ db[WinnerId].wins = last.db[WinnerId].wins + 1
        /\ db[LoserId].fights = last.db[LoserId].fights + 1
        /\ db[LoserId].wins = last.db[LoserId].wins
        /\ \A i \in DOMAIN db \ {WinnerId, LoserId} : db[i] = last.db[i]

C9_ClearRing ==
    /\ last.op = "clear_ring" =>
          /\ last.outcome = "ok"
          /\ ring = <<>>
          /\ clear_ring(ring) = ring
    /\ clear_ring(clear_ring(ring)) = clear_ring(ring)
    /\ ring = <<>> => clear_ring(ring) = ring

\* clear_ring was just called on a full ring.
C9_Witness == last.op = "clear_ring" /\ Len(last.ring) = 2 /\ ring = <<>>

\* C10: get_boxers returns the occupants in the order of their successful
\* enter_ring calls since the ring was last emptied, and changes neither the
\* ring nor the table.
C10_GetBoxersOrder ==
    last.op = "get_boxers" =>
        /\ last.retList = entered
        /\ ring = last.ring
        /\ db = last.db

\* get_boxers just returned two different boxers.
C10_Witness ==
    /\ last.op = "get_boxers" /\ Len(last.retList) = 2
    /\ last.retList[1] # last.retList[2]
    /\ last.retList[1] = entered[1]

\* C11: enter_ring with an argument that is not a Boxer fails with the type
\* error in every ring state, also in Full, where the type error comes before
\* the ring-full error, and leaves the ring as it was.
C11_NonBoxerRejected ==
    (last.op = "enter_ring" /\ last.arg.type # "Boxer") =>
        /\ last.outcome = "TypeError" /\ last.msg = "invalid_type"
        /\ ring = last.ring
        /\ entered = last.ring

\* A value that is not a Boxer was just offered to a full ring.
C11_Witness ==
    /\ last.op = "enter_ring" /\ last.arg = NotABoxer
    /\ Len(last.ring) = 2 /\ last.outcome = "TypeError"

\* get_random() was called by the last fight() and raised.
RandomFailed == last.op = "fight" /\ last.drew /\ last.r < 0

\* The p of the last fight() on a full ring, and the skill gap it came from.
FightOnFullRing == last.op = "fight" /\ Len(last.ring) = 2

LastGap == get_fighting_skill(last.ring[1]) - get_fighting_skill(last.ring[2])

\* C16 as stated: for every pair in a full ring the skill gap is >= 0 and
\* 0.5 <= p < 1, with p = 0.5 when the skills are equal.
C16_PBelowOne ==
    FightOnFullRing =>
        /\ Abs(LastGap) >= 0
        /\ 100 <= last.p /\ last.p < 200
        /\ LastGap = 0 => last.p = 100

\* C16 as amended: 0.5 <= p <= 1; p = 0.5 when the skills are equal, p is
\* above 0.5 when they differ by 0.01 or more, and p is exactly 1.0 exactly
\* when the gap has reached SaturationDelta (36.74), where the double
\* 1 + e^-delta rounds to 1.0.
C16_PUpToOne ==
    FightOnFullRing =>
        /\ Abs(LastGap) >= 0
        /\ 100 <= last.p /\ last.p <= 200
        /\ LastGap = 0 => last.p = 100
        /\ LastGap # 0 => last.p > 100
        /\ (last.p = 200) <=> (Abs(LastGap) >= SaturationDelta)

\* A fight was just resolved with p exactly 1.0 and the draw 1.00: the
\* second-entered boxer won.
C16_Witness ==
    /\ FightResolved /\ last.p = 200 /\ last.r = 100 /\ last.winner = 2

\* C17: if get_random() fails during fight() on a full ring, fight() ends with
\* that error before any stats update: no update_boxer_stats call is made, no
\* row changes and the ring holds the same two boxers in the same order.
C17_RandomFailureChangesNothing ==
    RandomFailed =>
        /\ last.outcome \in {"RuntimeError", "ValueError"}
        /\ last.msg \in {"random_failed", "random_invalid"}
        /\ last.updates = <<>> /\ last.dbcalls = 0
        /\ db = last.db
        /\ Len(last.ring) = 2 /\ ring = last.ring
        /\ last.retName = <<>>

\* get_random() just timed out in a fight between two boxers with fights on
\* record.
C17_Witness ==
    /\ RandomFailed /\ last.outcome = "RuntimeError"
    /\ \A i \in 1..2 : ring[i].id \in DOMAIN db /\ db[ring[i].id].fights > 0

\* C19: whenever the ring holds two occupants they are two different boxers
\* (different ids), so that no fight() puts the win and the loss on the same
\* row.
C19_OccupantsDiffer ==
    /\ Len(ring) = 2 => ring[1].id # ring[2].id
    /\ (last.op = "fight" /\ Len(last.updates) = 2) =>
          last.updates[1].id # last.updates[2].id

\* The four bands, lowest first.
ClassRank(class) ==
    CASE class = "FEATHERWEIGHT" -> 1
      [] class = "LIGHTWEIGHT" -> 2
      [] class = "MIDDLEWEIGHT" -> 3
      [] class = "HEAVYWEIGHT" -> 4

\* C12: get_weight_class maps every weight >= 203 to HEAVYWEIGHT, 166..202 to
\* MIDDLEWEIGHT, 133..165 to LIGHTWEIGHT and 125..132 to FEATHERWEIGHT, fails
\* for every weight below 125, negatives included, and no lighter valid
\* weight gets a higher band.
C12_WeightBands ==
    last.op = "get_weight_class" =>
        LET w == last.value
            c == last.class
        IN  /\ w >= 203 => (last.outcome = "ok" /\ c = "HEAVYWEIGHT")
            /\ (166 <= w /\ w <= 202) => (last.outcome = "ok" /\ c = "MIDDLEWEIGHT")
            /\ (133 <= w /\ w <= 165) => (last.outcome = "ok" /\ c = "LIGHTWEIGHT")
            /\ (125 <= w /\ w <= 132) => (last.outcome = "ok" /\ c = "FEATHERWEIGHT")
            /\ w < 125 => last.outcome = "ValueError"
            /\ w >= 125 =>
                  \A v \in 125..w : ClassRank(get_weight_class(v)) <= ClassRank(c)

\* get_weight_class(203) was just called and gave the heaviest band.
C12_Witness ==
    /\ last.op = "get_weight_class" /\ last.value = 203
    /\ last.class = "HEAVYWEIGHT"

\* C13: for every Boxer object at every moment weight_class is
\* get_weight_class(weight), also after the weight was assigned.
C13_WeightClassTracksWeight ==
    obj.type = "Boxer" => obj.weight_class = get_weight_class(obj.weight)

\* C15: get_fighting_skill(b) is weight * len(name) + reach/10 + m with m = -1
\* below age 25, -2 above age 35 and 0 for 25..35; it is a function of the
\* boxer's attributes alone and changes nothing (the boxer of scenario 1 has
\* 967.2 in every ring state).
C15_SkillFormula ==
    last.op = "get_fighting_skill" =>
        LET b == last.arg
            base == 100 * b.weight * Len(b.name) + b.reach
        IN  /\ b.age < 25 => last.value = base - 100
            /\ b.age > 35 => last.value = base - 200
            /\ (25 <= b.age /\ b.age <= 35) => last.value = base
            /\ b = Boxer1 => last.value = 96720
            /\ ring = last.ring /\ db = last.db

\* The skill of the scenario's boxer was just taken with two boxers in the ring.
C15_Witness ==
    /\ last.op = "get_fighting_skill" /\ last.arg = Boxer1
    /\ last.value = 96720 /\ Len(ring) = 2

\* The arguments break one of create_boxer's four rules.
InvalidCreateArg(a) ==
    \/ a.weight < 125
    \/ a.height <= 0
    \/ a.reach <= 0
    \/ ~(18 <= a.age /\ a.age <= 40)

\* C14: create_boxer with weight < 125, height <= 0, reach <= 0 or age outside
\* 18..40 fails with ValueError before any repository access: no connection is
\* opened and the stored boxers are unchanged, also when the repository is
\* down or already holds the name.
C14_ValidationBeforeRepository ==
    (last.op = "create_boxer" /\ InvalidCreateArg(last.arg)) =>
        /\ last.outcome = "ValueError"
        /\ last.msg \in {"invalid_weight", "invalid_height",
                         "invalid_reach", "invalid_age"}
        /\ last.dbcalls = 0
        /\ db = last.db /\ names = last.names

\* create_boxer("X", 100, 70, 72.0, 25) was just refused for its weight while
\* the table held rows.
C14_Witness ==
    /\ last.op = "create_boxer"
    /\ last.arg = CreateArg(<<"X">>, 100, 70, 720, 25)
    /\ last.outcome = "ValueError" /\ last.msg = "invalid_weight"
    /\ last.dbcalls = 0
    /\ db # <<>> /\ db = last.db

\* get_leaderboard's win_pct of a row with fights > 0, in tenths of a percent:
\* round(wins * 1.0 / fights * 100, 1).
win_pct(row) == (2000 * row.wins + row.fights) \div (2 * row.fights)

\* C18: after any sequence of create_boxer, delete_boxer, update_boxer_stats
\* and fight calls, failed ones included, every stored boxer has
\* 0 <= wins <= fights, and the leaderboard's win percentage is within 0..100.
C18_WinsAtMostFights ==
    \A i \in DOMAIN db :
        /\ 0 <= db[i].wins /\ db[i].wins <= db[i].fights
        /\ db[i].fights > 0 => (0 <= win_pct(db[i]) /\ win_pct(db[i]) <= 1000)

\* A fight just failed at the loser's update, leaving the winner with as many
\* wins as fights, next to a row that has lost a fight.
C18_Witness ==
    /\ FightResolved /\ last.outcome # "ok" /\ Len(last.updates) = 2
    /\ WinnerId \in DOMAIN db
    /\ db[WinnerId].wins = db[WinnerId].fights /\ db[WinnerId].fights >= 1
    /\ \E i \in DOMAIN db : db[i].wins < db[i].fights

====
